---- MODULE Spec2Model ----
(***************************************************************************)
(* Alert-event DAO of internal/prometheus/dao/alert/event_dao.go.          *)
(*                                                                         *)
(* The store is the monitor_alert_events table.  Every DAO method issues   *)
(* at most one statement against it, so a method call is one atomic step   *)
(* of the model and concurrent requests are interleavings of those steps.  *)
(* A caller (operator) may keep the event a lookup returned and later pass *)
(* it, with RenLingUserID set to itself, to EventAlertClaim.               *)
(***************************************************************************)
EXTENDS Integers, Sequences, FiniteSets, TLC

VARIABLES
    store,     \* the table: row index -> row (all columns)
    prev,      \* the table as it was when the most recent call started
    now,       \* the wall clock, in seconds (time.Now().Unix())
    snap,      \* per operator: the event its last successful lookup returned
    outcome,   \* per operator: result of its last claim built from snap
    cur        \* the most recent call: who, arguments, what it returned

vars == <<store, prev, now, snap, outcome, cur>>

----------------------------------------------------------------------------
(* Bounds of the model *)

MaxTime == 3

(* Operators (user ids) issuing requests *)
Operators == {1, 2}

(* Row indexes of the table; MissingId is a positive id with no row *)
RowIds == {1, 2, 3, 4}
MissingId == Cardinality(RowIds) + 1

(* Ids the callers pass: invalid ones, a live row, the soft-deleted row and *)
(* an id with no row                                                        *)
Ids == {-1, 0, 1, 3, MissingId}


----------------------------------------------------------------------------
(* model.MonitorAlertEvent: the columns of a row / fields of an event *)

ZeroEvent ==
    [ID |-> 0, AlertName |-> <<>>, Fingerprint |-> "", Status |-> "",
     RuleID |-> 0, SendGroupID |-> 0, EventTimes |-> 0, SilenceID |-> 0,
     RenLingUserID |-> 0, Labels |-> <<>>, CreatedAt |-> 0, UpdatedAt |-> 0,
     DeletedAt |-> 0]

(* A caller that is no operator (no user id) and keeps nothing a lookup    *)
(* returned                                                                *)
AnyCaller == ZeroEvent.RenLingUserID

(* The table after construction: rows written by the ingestion pipeline.   *)
(* Rows 1 and 2 were created in the same second; row 3 is soft-deleted;    *)
(* row 4 is newer, already claimed and resolved.                           *)
InitStore ==
    (1 :> [ZeroEvent EXCEPT !.ID = 1, !.AlertName = <<"a", "b">>,
                            !.Fingerprint = "f1", !.Status = "firing",
                            !.RuleID = 1, !.SendGroupID = 1, !.EventTimes = 2,
                            !.Labels = <<"k=v">>,
                            !.CreatedAt = 1, !.UpdatedAt = 1])
 @@ (2 :> [ZeroEvent EXCEPT !.ID = 2, !.AlertName = <<"b">>,
                            !.Fingerprint = "f2", !.Status = "firing",
                            !.RuleID = 1, !.SendGroupID = 1, !.EventTimes = 1,
                            !.CreatedAt = 1, !.UpdatedAt = 2])
 @@ (3 :> [ZeroEvent EXCEPT !.ID = 3, !.AlertName = <<"a", "b">>,
                            !.Fingerprint = "f1", !.Status = "resolved",
                            !.RuleID = 1, !.SendGroupID = 1, !.EventTimes = 1,
                            !.RenLingUserID = 1,
                            !.CreatedAt = 1, !.UpdatedAt = 1, !.DeletedAt = 1])
 @@ (4 :> [ZeroEvent EXCEPT !.ID = 4, !.AlertName = <<"c">>,
                            !.Fingerprint = "f4", !.Status = "resolved",
                            !.RuleID = 2, !.SendGroupID = 1, !.EventTimes = 3,
                            !.RenLingUserID = 2,
                            !.CreatedAt = 2, !.UpdatedAt = 2])

----------------------------------------------------------------------------
(* Outcomes a method returns *)

Ok == "ok"
ErrInvalidID == "invalid id"                       \* fmt.Errorf("无效的 ID") / ("无效的事件ID")
ErrRecordNotFound == "record not found"            \* fmt.Errorf("未找到ID为 %d 的告警事件")
ErrNotFoundOrDeleted == "not found or deleted"     \* fmt.Errorf("未找到ID为 %d 的告警事件或已被删除")
ErrStore == "store error"                          \* result.Error / err passed through
ErrEmptyName == "empty name"
ErrOffset == "negative offset"
ErrLimit == "non-positive limit"
ErrEmptyURL == "empty url"
ErrEmptyMessage == "empty message"
ErrSend == "send failed"

(* The record of a call, before the method has filled anything in *)
NoCall ==
    [who |-> 0, op |-> "none", id |-> 0, arg |-> ZeroEvent, stale |-> FALSE,
     name |-> <<>>, offset |-> 0, limit |-> 0, url |-> "", msg |-> <<>>,
     at |-> 0, fault |-> FALSE, db |-> FALSE, http |-> FALSE,
     res |-> "none", rows |-> 0, out |-> <<>>, body |-> <<>>,
     reissue |-> FALSE]

----------------------------------------------------------------------------
(* Inputs the callers draw from *)

MaxOffset == 3
MaxLimit == 2

Names == {<<>>, <<"a">>, <<"_">>, <<"c">>}
Offsets == -1 .. MaxOffset
Limits == 0 .. MaxLimit
Urls == {"", "http://x"}
Msgs == {<<>>, <<"h", "i">>, <<"\"">>, <<"\\">>}

(* Events callers build by hand: only the named fields are set *)
Payloads ==
    {[ZeroEvent EXCEPT !.RenLingUserID = u] : u \in Operators}
    \cup {ZeroEvent,
          [ZeroEvent EXCEPT !.Status = "resolved", !.EventTimes = 1],
          [ZeroEvent EXCEPT !.EventTimes = 1],
          [ZeroEvent EXCEPT !.DeletedAt = 1]}

----------------------------------------------------------------------------
(* The store layer: what the statements the methods build do *)

(* Variant: the check lets id 0 through *)
ValidIDNonNegative(id) == id >= 0

(* line 77 / 140 / 163 / 183: the id check every by-id method starts with *)
ValidID(id) == id > 0

(* A statement names its table through Model(...) or through a struct     *)
(* destination; Updates(map) without Model/Table has no table and fails    *)
(* before any SQL is sent ("Table not set").                               *)
TableSet(stmt) == stmt.model \/ stmt.dest = "struct"

(* SQL LIKE: % matches any run of characters, _ any one character *)
RECURSIVE Like(_, _)
Like(s, pat) ==
    IF pat = <<>> THEN s = <<>>
    ELSE IF Head(pat) = "%"
         THEN Like(s, Tail(pat)) \/ (s # <<>> /\ Like(Tail(s), pat))
         ELSE /\ s # <<>>
              /\ (Head(pat) = "_" \/ Head(pat) = Head(s))
              /\ Like(Tail(s), Tail(pat))

(* The rows of index set S as a slice in primary-key order *)
RECURSIVE RowsInIdOrder(_, _)
RowsInIdOrder(st, S) ==
    IF S = {} THEN <<>>
    ELSE LET i == CHOOSE x \in S : \A y \in S : x <= y
         IN  <<st[i]>> \o RowsInIdOrder(st, S \ {i})

(* All orderings of the index set S *)
Orderings(S) ==
    {f \in [1 .. Cardinality(S) -> S] : \A i, j \in DOMAIN f : i # j => f[i] # f[j]}

----------------------------------------------------------------------------
(* The lookups *)

(* line 84: Where("deleted_at = ?", 0).First(&alertEvent, id) *)
GetByIdWhere(row, id) == row.DeletedAt = 0 /\ row.ID = id

(* GetMonitorAlertEventById, lines 76-93: the call record it produces on   *)
(* table st; fault is a failure of the store (connection, timeout).        *)
GetMonitorAlertEventByIdCall(id, fault, st, t) ==
    LET c == [NoCall EXCEPT !.op = "GetMonitorAlertEventById",
                            !.id = id, !.at = t]
        m == {i \in RowIds : GetByIdWhere(st[i], id)}
    IN  IF ~ValidID(id) THEN [c EXCEPT !.res = ErrInvalidID]
        ELSE IF fault THEN [c EXCEPT !.db = TRUE, !.fault = TRUE, !.res = ErrStore]
        ELSE IF m = {} THEN [c EXCEPT !.db = TRUE, !.res = ErrRecordNotFound]
        ELSE [c EXCEPT !.db = TRUE, !.res = Ok, !.rows = 1,
                       !.out = <<st[CHOOSE i \in m : TRUE]>>]

(* Variant: the lookup also returns soft-deleted rows *)
GetAlertEventWhereIdOnly(row, id) == row.ID = id

(* line 170: Where("deleted_at = ?", 0).First(&alertEvent, id) *)
GetAlertEventWhere(row, id) == row.DeletedAt = 0 /\ row.ID = id

(* GetAlertEventByID, lines 162-179 *)
GetAlertEventByIDCall(id, fault, st, t) ==
    LET c == [NoCall EXCEPT !.op = "GetAlertEventByID",
                            !.id = id, !.at = t]
        m == {i \in RowIds : GetAlertEventWhere(st[i], id)}
    IN  IF id <= 0 THEN [c EXCEPT !.res = ErrInvalidID]
        ELSE IF fault THEN [c EXCEPT !.db = TRUE, !.fault = TRUE, !.res = ErrStore]
        ELSE IF m = {} THEN [c EXCEPT !.db = TRUE, !.res = ErrRecordNotFound]
        ELSE [c EXCEPT !.db = TRUE, !.res = Ok, !.rows = 1,
                       !.out = <<st[CHOOSE i \in m : TRUE]>>]

(* lines 104-105: Where("deleted_at = ?", 0).Where("alert_name LIKE ?", "%"+name+"%") *)
SearchWhere(row, name) ==
    row.DeletedAt = 0 /\ Like(row.AlertName, <<"%">> \o name \o <<"%">>)

(* SearchMonitorAlertEventByName, lines 96-112 *)
SearchMonitorAlertEventByNameCall(name, fault, st, t) ==
    LET c == [NoCall EXCEPT !.op = "SearchMonitorAlertEventByName",
                            !.name = name, !.at = t]
        m == {i \in RowIds : SearchWhere(st[i], name)}
    IN  IF name = <<>> THEN [c EXCEPT !.res = ErrEmptyName]
        ELSE IF fault THEN [c EXCEPT !.db = TRUE, !.fault = TRUE, !.res = ErrStore]
        ELSE [c EXCEPT !.db = TRUE, !.res = Ok, !.rows = Cardinality(m),
                       !.out = RowsInIdOrder(st, m)]

(* line 126: Where("deleted_at = ?", 0) *)
ListWhere(row) == row.DeletedAt = 0

(* Variant: oldest first *)
ListOrdersAscending(st) ==
    {f \in Orderings({i \in RowIds : ListWhere(st[i])}) :
        \A i, j \in DOMAIN f : i < j => st[f[i]].CreatedAt <= st[f[j]].CreatedAt}

(* line 127: Order("created_at DESC"); rows created in the same second may  *)
(* come in either order                                                     *)
ListOrders(st) ==
    {f \in Orderings({i \in RowIds : ListWhere(st[i])}) :
        \A i, j \in DOMAIN f : i < j => st[f[i]].CreatedAt >= st[f[j]].CreatedAt}

(* lines 128-129: Offset(offset).Limit(limit) of the ordered rows *)
ListPage(st, ord, offset, limit) ==
    LET n  == Len(ord)
        hi == IF offset + limit < n THEN offset + limit ELSE n
    IN  [k \in 1 .. (IF hi > offset THEN hi - offset ELSE 0) |-> st[ord[offset + k]]]

(* GetMonitorAlertEventList, lines 115-136; ord is the order the store picked *)
GetMonitorAlertEventListCall(offset, limit, fault, ord, st, t) ==
    LET c == [NoCall EXCEPT !.op = "GetMonitorAlertEventList",
                            !.offset = offset, !.limit = limit, !.at = t]
    IN  IF offset < 0 THEN [c EXCEPT !.res = ErrOffset]
        ELSE IF limit <= 0 THEN [c EXCEPT !.res = ErrLimit]
        ELSE IF fault THEN [c EXCEPT !.db = TRUE, !.fault = TRUE, !.res = ErrStore]
        ELSE LET page == ListPage(st, ord, offset, limit)
             IN  [c EXCEPT !.db = TRUE, !.res = Ok, !.rows = Len(page), !.out = page]

----------------------------------------------------------------------------
(* The updates *)

(* Updates(struct): a column is assigned when the field is not its zero value *)
Assigned(e, col) == e[col] # ZeroEvent[col]

(* line 145: Model(&model.MonitorAlertEvent{}) ... Updates(event) *)
ClaimStatement == [model |-> TRUE, dest |-> "struct"]

(* Variant: the statement does not filter on deleted_at *)
ClaimWhereIdOnly(row, id) == row.ID = id

(* line 146: Where("id = ? AND deleted_at = ?", event.ID, 0) *)
ClaimWhere(row, id) == row.ID = id /\ row.DeletedAt = 0

(* Updates(event) with a struct: every non-zero field of the event is      *)
(* written to its column, zero fields are skipped                          *)
StructUpdates(row, e) ==
    [ID            |-> IF Assigned(e, "ID") THEN e.ID ELSE row.ID,
     AlertName     |-> IF Assigned(e, "AlertName") THEN e.AlertName ELSE row.AlertName,
     Fingerprint   |-> IF Assigned(e, "Fingerprint") THEN e.Fingerprint ELSE row.Fingerprint,
     Status        |-> IF Assigned(e, "Status") THEN e.Status ELSE row.Status,
     RuleID        |-> IF Assigned(e, "RuleID") THEN e.RuleID ELSE row.RuleID,
     SendGroupID   |-> IF Assigned(e, "SendGroupID") THEN e.SendGroupID ELSE row.SendGroupID,
     EventTimes    |-> IF Assigned(e, "EventTimes") THEN e.EventTimes ELSE row.EventTimes,
     SilenceID     |-> IF Assigned(e, "SilenceID") THEN e.SilenceID ELSE row.SilenceID,
     RenLingUserID |-> IF Assigned(e, "RenLingUserID") THEN e.RenLingUserID
                       ELSE row.RenLingUserID,
     Labels        |-> IF Assigned(e, "Labels") THEN e.Labels ELSE row.Labels,
     CreatedAt     |-> IF Assigned(e, "CreatedAt") THEN e.CreatedAt ELSE row.CreatedAt,
     UpdatedAt     |-> IF Assigned(e, "UpdatedAt") THEN e.UpdatedAt ELSE row.UpdatedAt,
     DeletedAt     |-> IF Assigned(e, "DeletedAt") THEN e.DeletedAt ELSE row.DeletedAt]

(* Variant: updated_at is written like any other field, from the event *)
ClaimSetKeepsUpdatedAt(row, e, t) == StructUpdates(row, e)

(* Variant: claiming an event one already holds releases it *)
ClaimSetToggles(row, e, t) ==
    [StructUpdates(row, e) EXCEPT
        !.RenLingUserID = IF Assigned(e, "RenLingUserID") /\ row.RenLingUserID = e.RenLingUserID
                          THEN ZeroEvent.RenLingUserID ELSE @,
        !.UpdatedAt = t]

(* line 147: Updates(event) on the matched row: the struct's non-zero      *)
(* fields, and updated_at set to the time of the write whatever the event  *)
(* carries                                                                  *)
ClaimSet(row, e, t) == [StructUpdates(row, e) EXCEPT !.UpdatedAt = t]

(* result.RowsAffected: the number of rows the statement matched, or, when *)
(* the driver reports changed rows only, of matched rows whose values      *)
(* changed; which of the two is a setting of the connection                *)
RowsAffected(matched, changed) == {Cardinality(matched), Cardinality(changed)}

(* lines 149-158: the error EventAlertClaim returns *)
ClaimResult(failed, n) ==
    IF failed THEN ErrStore
    ELSE IF n = 0 THEN ErrNotFoundOrDeleted
    ELSE Ok

(* lines 187-189: a.db.WithContext(ctx).Where(...).Updates(map): no Model, *)
(* no Table                                                                 *)
UpdateStatement == [model |-> FALSE, dest |-> "map"]

(* line 188: Where("id = ? AND deleted_at = ?", alertEvent.ID, 0) *)
UpdateWhere(row, id) == row.ID = id /\ row.DeletedAt = 0

(* line 71-73: getTime() *)
getTime(t) == t

(* lines 189-200: Updates(map): every listed column is written, zero or not *)
UpdateSet(row, e, t) ==
    [row EXCEPT !.AlertName = e.AlertName, !.Fingerprint = e.Fingerprint,
                !.Status = e.Status, !.RuleID = e.RuleID,
                !.SendGroupID = e.SendGroupID, !.EventTimes = e.EventTimes,
                !.SilenceID = e.SilenceID, !.RenLingUserID = e.RenLingUserID,
                !.Labels = e.Labels, !.UpdatedAt = getTime(t)]

(* lines 202-211: the error UpdateAlertEvent returns *)
UpdateResult(failed, n) ==
    IF failed THEN ErrStore
    ELSE IF n = 0 THEN ErrNotFoundOrDeleted
    ELSE Ok

----------------------------------------------------------------------------
(* The notification *)

(* line 224: fmt.Sprintf(`{"msg_type":"text","content":{"text":"%s"}}`, message) *)
MessageContent(msg) ==
    <<"{", "\"msg_type\"", ":", "\"text\"", ",", "\"content\"", ":", "{",
      "\"text\"", ":", "\"">> \o msg \o <<"\"", "}", "}">>

(* Variant: the message is not checked *)
SendMessageToGroupCallAnyMessage(url, msg, delivered, t) ==
    LET c == [NoCall EXCEPT !.op = "SendMessageToGroup",
                            !.url = url, !.msg = msg, !.at = t]
    IN  IF url = "" THEN [c EXCEPT !.res = ErrEmptyURL]
        ELSE [c EXCEPT !.http = TRUE, !.body = MessageContent(msg),
                       !.res = IF delivered THEN Ok ELSE ErrSend]

(* SendMessageToGroup, lines 215-245; delivered is what the POST came to *)
SendMessageToGroupCall(url, msg, delivered, t) ==
    LET c == [NoCall EXCEPT !.op = "SendMessageToGroup",
                            !.url = url, !.msg = msg, !.at = t]
    IN  IF url = "" THEN [c EXCEPT !.res = ErrEmptyURL]
        ELSE IF msg = <<>> THEN [c EXCEPT !.res = ErrEmptyMessage]
        ELSE [c EXCEPT !.http = TRUE, !.body = MessageContent(msg),
                       !.res = IF delivered THEN Ok ELSE ErrSend]

----------------------------------------------------------------------------
Init ==
    /\ store = InitStore
    /\ prev = InitStore
    /\ now = 2
    /\ snap = [p \in Operators |-> ZeroEvent]
    /\ outcome = [p \in Operators |-> "none"]
    /\ cur = NoCall

(* The clock advances *)
Tick ==
    /\ now < MaxTime
    /\ now' = now + 1
    /\ UNCHANGED <<store, prev, snap, outcome, cur>>

(* A lookup by id; an operator keeps the event it got *)
GetMonitorAlertEventById(p, id, fault) ==
    LET c == [GetMonitorAlertEventByIdCall(id, fault, store, now) EXCEPT !.who = p]
        keep == p \in Operators /\ c.res = Ok
    IN  /\ cur' = c
        /\ prev' = store
        /\ snap' = IF keep THEN [snap EXCEPT ![p] = c.out[1]] ELSE snap
        /\ outcome' = IF keep THEN [outcome EXCEPT ![p] = "none"] ELSE outcome
        /\ UNCHANGED <<store, now>>

GetAlertEventByID(p, id, fault) ==
    LET c == [GetAlertEventByIDCall(id, fault, store, now) EXCEPT !.who = p]
        keep == p \in Operators /\ c.res = Ok
    IN  /\ cur' = c
        /\ prev' = store
        /\ snap' = IF keep THEN [snap EXCEPT ![p] = c.out[1]] ELSE snap
        /\ outcome' = IF keep THEN [outcome EXCEPT ![p] = "none"] ELSE outcome
        /\ UNCHANGED <<store, now>>

SearchMonitorAlertEventByName(name, fault) ==
    /\ cur' = SearchMonitorAlertEventByNameCall(name, fault, store, now)
    /\ prev' = store
    /\ UNCHANGED <<store, now, snap, outcome>>

GetMonitorAlertEventList(offset, limit, fault) ==
    /\ \E ord \in ListOrders(store) :
          cur' = GetMonitorAlertEventListCall(offset, limit, fault, ord, store, now)
    /\ prev' = store
    /\ UNCHANGED <<store, now, snap, outcome>>

(* EventAlertClaim, lines 139-159.  stale: the event is the one the caller *)
(* looked up earlier, with RenLingUserID set to the caller.                *)
EventAlertClaim(p, e, stale, fault) ==
    LET c == [NoCall EXCEPT !.who = p, !.op = "EventAlertClaim", !.id = e.ID,
                            !.arg = e, !.stale = stale, !.at = now,
                            !.reissue = /\ cur.op = "EventAlertClaim"
                                        /\ cur.who = p
                                        /\ cur.arg = e
                                        /\ cur.res = Ok]
        failed   == fault \/ ~TableSet(ClaimStatement)
        matched  == {i \in RowIds : ClaimWhere(store[i], e.ID)}
        written  == [i \in RowIds |->
                        IF i \in matched THEN ClaimSet(store[i], e, now) ELSE store[i]]
        changed  == {i \in matched : written[i] # store[i]}
    IN  /\ prev' = store
        /\ IF ~ValidID(e.ID)
           THEN /\ cur' = [c EXCEPT !.res = ErrInvalidID]
                /\ store' = store
           ELSE IF failed
           THEN /\ cur' = [c EXCEPT !.db = TRUE, !.fault = fault,
                                    !.res = ClaimResult(TRUE, 0)]
                /\ store' = store
           ELSE /\ \E n \in RowsAffected(matched, changed) :
                      cur' = [c EXCEPT !.db = TRUE, !.rows = n,
                                       !.res = ClaimResult(FALSE, n)]
                /\ store' = written
        /\ outcome' = IF stale THEN [outcome EXCEPT ![p] = cur'.res] ELSE outcome
        /\ UNCHANGED <<now, snap>>

(* UpdateAlertEvent, lines 182-212 *)
UpdateAlertEvent(e, fault) ==
    LET c == [NoCall EXCEPT !.op = "UpdateAlertEvent", !.id = e.ID,
                            !.arg = e, !.at = now]
        failed   == fault \/ ~TableSet(UpdateStatement)
        matched  == {i \in RowIds : UpdateWhere(store[i], e.ID)}
        written  == [i \in RowIds |->
                        IF i \in matched THEN UpdateSet(store[i], e, now) ELSE store[i]]
        changed  == {i \in matched : written[i] # store[i]}
    IN  /\ prev' = store
        /\ IF e.ID <= 0
           THEN /\ cur' = [c EXCEPT !.res = ErrInvalidID]
                /\ store' = store
           ELSE IF failed
           THEN /\ cur' = [c EXCEPT !.db = TRUE, !.fault = fault,
                                    !.res = UpdateResult(TRUE, 0)]
                /\ store' = store
           ELSE /\ \E n \in RowsAffected(matched, changed) :
                      cur' = [c EXCEPT !.db = TRUE, !.rows = n,
                                       !.res = UpdateResult(FALSE, n)]
                /\ store' = written
        /\ UNCHANGED <<now, snap, outcome>>

(* Variant: a failed dispatch takes the claims back *)
SendMessageToGroupUndoesClaim(url, msg, delivered) ==
    LET c == SendMessageToGroupCall(url, msg, delivered, now)
    IN  /\ cur' = c
        /\ prev' = store
        /\ store' = IF c.res = ErrSend
                    THEN [i \in RowIds |->
                            [store[i] EXCEPT !.RenLingUserID =
                                IF store[i].DeletedAt = 0 /\ store[i].Status = "firing"
                                THEN ZeroEvent.RenLingUserID ELSE @]]
                    ELSE store
        /\ UNCHANGED <<now, snap, outcome>>

(* SendMessageToGroup, lines 215-245: it touches no table *)
SendMessageToGroup(url, msg, delivered) ==
    /\ cur' = SendMessageToGroupCall(url, msg, delivered, now)
    /\ prev' = store
    /\ UNCHANGED <<store, now, snap, outcome>>

----------------------------------------------------------------------------
(* Requests arriving in any order, each with arguments of the caller's     *)
(* choice                                                                   *)
Next ==
    \/ Tick
    \/ \E id \in Ids, fault \in BOOLEAN :
          GetMonitorAlertEventById(AnyCaller, id, fault)
    \/ \E id \in Ids, fault \in BOOLEAN :
          GetAlertEventByID(AnyCaller, id, fault)
    \/ \E name \in Names, fault \in BOOLEAN :
          SearchMonitorAlertEventByName(name, fault)
    \/ \E offset \in Offsets, limit \in Limits, fault \in BOOLEAN :
          GetMonitorAlertEventList(offset, limit, fault)
    \/ \E id \in Ids, t \in Payloads, fault \in BOOLEAN :
          EventAlertClaim(AnyCaller, [t EXCEPT !.ID = id], FALSE, fault)
    \/ \E id \in Ids, t \in Payloads, fault \in BOOLEAN :
          UpdateAlertEvent([t EXCEPT !.ID = id], fault)
    \/ \E url \in Urls, msg \in Msgs, delivered \in BOOLEAN :
          SendMessageToGroup(url, msg, delivered)

Spec == Init /\ [][Next]_vars

(* Two operators each look an event up and then claim what they saw *)
NextRace ==
    \/ Tick
    \/ \E p \in Operators, id \in Ids, fault \in BOOLEAN :
          GetAlertEventByID(p, id, fault)
    \/ \E p \in Operators, fault \in BOOLEAN :
          /\ snap[p] # ZeroEvent
          /\ EventAlertClaim(p, [snap[p] EXCEPT !.RenLingUserID = p], TRUE, fault)
    \/ \E id \in Ids, fault \in BOOLEAN :
          GetMonitorAlertEventById(AnyCaller, id, fault)

SpecRace == Init /\ [][NextRace]_vars

----------------------------------------------------------------------------
(* Properties *)

(* The rows of table st that a call on id addresses *)
RowsWithId(st, id) == {i \in RowIds : st[i].ID = id}
LiveRows(st) == {i \in RowIds : st[i].DeletedAt = 0}
ByIdOps == {"GetMonitorAlertEventById", "GetAlertEventByID",
            "EventAlertClaim", "UpdateAlertEvent"}

(* C1: when two different operators each claim the same not-deleted,       *)
(* unclaimed event from the same pre-claim state, exactly one call         *)
(* succeeds, the other gets the zero-rows (conflict) error, and the row's  *)
(* claimant is the operator whose call succeeded.                          *)
C1_ExactlyOneClaimWins ==
    \A p, q \in Operators :
        ( /\ p # q
          /\ snap[p] # ZeroEvent
          /\ snap[p] = snap[q]
          /\ snap[p].RenLingUserID = 0
          /\ outcome[p] \in {Ok, ErrNotFoundOrDeleted}
          /\ outcome[q] \in {Ok, ErrNotFoundOrDeleted} )
        => /\ (outcome[p] = Ok) # (outcome[q] = Ok)
           /\ \A i \in RowsWithId(store, snap[p].ID) :
                 store[i].RenLingUserID = (IF outcome[p] = Ok THEN p ELSE q)

(* C2: once U1 holds an event, a claim by another operator U2 built from   *)
(* the snapshot taken before U1's claim gets the zero-rows (conflict)      *)
(* error, and a lookup of the event afterwards still shows U1.             *)
C2_StaleClaimRejected ==
    ( /\ cur.op = "EventAlertClaim"
      /\ cur.stale
      /\ ~cur.fault
      /\ snap[cur.who].RenLingUserID = 0 )
    => \A i \in RowsWithId(prev, cur.id) :
          ( /\ prev[i].DeletedAt = 0
            /\ prev[i].RenLingUserID # 0
            /\ prev[i].RenLingUserID # cur.who )
          => /\ cur.res = ErrNotFoundOrDeleted
             /\ LET g == GetMonitorAlertEventByIdCall(cur.id, FALSE, store, now)
                IN  /\ g.res = Ok
                    /\ g.out[1].RenLingUserID = prev[i].RenLingUserID

(* C3: across every call, a row's renLingUserId, once non-zero, stays the  *)
(* same user: it is never replaced by another user nor reset to zero.      *)
C3_ClaimantNeverChanges ==
    \A i \in RowIds :
        prev[i].RenLingUserID # 0 => store[i].RenLingUserID = prev[i].RenLingUserID

(* C4: issuing the same EventAlertClaim again right after it succeeded     *)
(* leaves the row's renLingUserId as the first call left it, whether the   *)
(* second call returns success or the zero-rows error.                     *)
C4_ReclaimKeepsClaimant ==
    (cur.op = "EventAlertClaim" /\ cur.reissue)
    => /\ cur.res \in {Ok, ErrNotFoundOrDeleted, ErrStore}
       /\ \A i \in RowsWithId(prev, cur.id) :
             store[i].RenLingUserID = prev[i].RenLingUserID

C4_Witness ==
    /\ cur.op = "EventAlertClaim"
    /\ cur.reissue
    /\ cur.arg.RenLingUserID = 1
    /\ cur.res = Ok
    /\ store[1].RenLingUserID = 1

(* C5: with id <= 0 the four by-id methods return the invalid-id error,    *)
(* issue no statement and leave the table as it was.                       *)
C5_InvalidIdRejectedBeforeStore ==
    (cur.op \in ByIdOps /\ cur.id <= 0)
    => /\ cur.res = ErrInvalidID
       /\ ~cur.db
       /\ cur.rows = 0
       /\ cur.out = <<>>
       /\ store = prev

C5_Witness ==
    /\ cur.op = "EventAlertClaim"
    /\ cur.id = 0
    /\ cur.arg.RenLingUserID = 2
    /\ cur.res = ErrInvalidID

(* C6: a row with deletedAt # 0 is invisible: the lookups by its id return *)
(* not-found and no event, search and list never return it, and a claim or *)
(* update on its id affects zero rows, returns an error and changes        *)
(* nothing.                                                                *)
C6_DeletedRowsInvisible ==
    \A i \in RowIds :
        prev[i].DeletedAt # 0 =>
            /\ (cur.op \in {"GetMonitorAlertEventById", "GetAlertEventByID"}
                    /\ cur.id = prev[i].ID)
               => /\ cur.out = <<>>
                  /\ cur.res # Ok
                  /\ ~cur.fault => cur.res = ErrRecordNotFound
            /\ (cur.op \in {"SearchMonitorAlertEventByName", "GetMonitorAlertEventList"})
               => \A k \in DOMAIN cur.out :
                     cur.out[k].ID # prev[i].ID /\ cur.out[k].DeletedAt = 0
            /\ (cur.op \in {"EventAlertClaim", "UpdateAlertEvent"}
                    /\ cur.id = prev[i].ID)
               => /\ cur.rows = 0
                  /\ cur.res # Ok
                  /\ store = prev

C6_Witness ==
    /\ cur.op = "EventAlertClaim"
    /\ cur.id = 1
    /\ prev[1].DeletedAt # 0
    /\ cur.arg.RenLingUserID = 2
    /\ cur.res = ErrNotFoundOrDeleted

(* C7: for offset >= 0 and limit N > 0 the list is the slice               *)
(* [offset, offset+N) of the not-deleted rows in createdAt-descending      *)
(* order: at most N rows, none deleted, none twice, newest first, each at  *)
(* its place in the order; past the end it is empty, with no error.        *)
C7_ListIsPageOfNewestFirst ==
    (cur.op = "GetMonitorAlertEventList" /\ cur.offset >= 0 /\ cur.limit > 0
        /\ ~cur.fault)
    => LET live == LiveRows(prev)
           rest == Cardinality(live) - cur.offset
           out  == cur.out
       IN  /\ cur.res = Ok
           /\ Len(out) <= cur.limit
           /\ Len(out) = (IF rest <= 0 THEN 0
                          ELSE IF rest < cur.limit THEN rest ELSE cur.limit)
           /\ \A k \in DOMAIN out : \E i \in live : out[k] = prev[i]
           /\ \A k, l \in DOMAIN out : k # l => out[k].ID # out[l].ID
           /\ \A k, l \in DOMAIN out : k < l => out[k].CreatedAt >= out[l].CreatedAt
           /\ \A k \in DOMAIN out :
                 /\ Cardinality({i \in live : prev[i].CreatedAt > out[k].CreatedAt})
                        <= cur.offset + k - 1
                 /\ Cardinality({i \in live : prev[i].CreatedAt >= out[k].CreatedAt})
                        >= cur.offset + k

C7_Witness ==
    /\ cur.op = "GetMonitorAlertEventList"
    /\ cur.offset = 1
    /\ cur.limit = 2
    /\ cur.res = Ok
    /\ Len(cur.out) = 2
    /\ cur.out[1].ID = 2
    /\ cur.out[2].ID = 1

(* C8: SendMessageToGroup with an empty url or an empty message returns a  *)
(* validation error and posts nothing.                                     *)
C8_EmptyUrlOrMessageNotPosted ==
    (cur.op = "SendMessageToGroup" /\ (cur.url = "" \/ cur.msg = <<>>))
    => /\ cur.res \in {ErrEmptyURL, ErrEmptyMessage}
       /\ ~cur.http
       /\ cur.body = <<>>

C8_Witness ==
    /\ cur.op = "SendMessageToGroup"
    /\ cur.url # ""
    /\ cur.msg = <<>>
    /\ cur.res = ErrEmptyMessage

(* C9: UpdateAlertEvent with a positive id that matches no not-deleted row *)
(* returns the not-found-or-deleted error, which is not the error a store  *)
(* failure gives, and leaves every row unchanged.                          *)
C9_UpdateMissingIsNotFound ==
    ( /\ cur.op = "UpdateAlertEvent"
      /\ cur.id > 0
      /\ ~cur.fault
      /\ \A i \in RowsWithId(prev, cur.id) : prev[i].DeletedAt # 0 )
    => /\ cur.res = ErrNotFoundOrDeleted
       /\ cur.res # ErrStore
       /\ store = prev

C11_DispatchLeavesStore ==
    cur.op = "SendMessageToGroup"
    => /\ store = prev
       /\ \A i \in RowIds :
             (prev[i].DeletedAt = 0 /\ prev[i].RenLingUserID # 0)
             => LET g == GetMonitorAlertEventByIdCall(prev[i].ID, FALSE, store, now)
                IN  /\ g.res = Ok
                    /\ g.out[1].RenLingUserID = prev[i].RenLingUserID

C11_Witness ==
    /\ cur.op = "SendMessageToGroup"
    /\ cur.res = ErrSend
    /\ cur.http
    /\ store[1].DeletedAt = 0
    /\ store[1].RenLingUserID = 1

(* C12: while an event is not resolved, no EventAlertClaim or              *)
(* UpdateAlertEvent leaves its eventTimes smaller than it was before the   *)
(* call.                                                                   *)
C12_EventTimesNeverDecrease ==
    cur.op \in {"EventAlertClaim", "UpdateAlertEvent"}
    => \A i \in RowIds :
          (prev[i].Status # "resolved" /\ store[i].Status # "resolved")
          => store[i].EventTimes >= prev[i].EventTimes

(* s contains sub as a run of consecutive characters *)
Contains(s, sub) ==
    \E k \in 0 .. (Len(s) - Len(sub)) : SubSeq(s, k + 1, k + Len(sub)) = sub

(* C13: an empty search name, a negative offset and a non-positive limit   *)
(* are rejected before any query; for a non-empty name the search returns  *)
(* exactly the not-deleted rows whose alertName contains the name.         *)
C13_SearchIsSubstringMatch ==
    /\ (cur.op = "SearchMonitorAlertEventByName" /\ cur.name = <<>>)
       => (cur.res = ErrEmptyName /\ ~cur.db /\ cur.out = <<>>)
    /\ (cur.op = "GetMonitorAlertEventList" /\ (cur.offset < 0 \/ cur.limit <= 0))
       => (cur.res \in {ErrOffset, ErrLimit} /\ ~cur.db /\ cur.out = <<>>)
    /\ (cur.op = "SearchMonitorAlertEventByName" /\ cur.name # <<>> /\ ~cur.fault)
       => /\ cur.res = Ok
          /\ \A k \in DOMAIN cur.out : \E i \in RowIds : cur.out[k] = prev[i]
          /\ \A k, l \in DOMAIN cur.out : k # l => cur.out[k].ID # cur.out[l].ID
          /\ {cur.out[k].ID : k \in DOMAIN cur.out}
                = {prev[i].ID : i \in {j \in LiveRows(prev) :
                                          Contains(prev[j].AlertName, cur.name)}}

(* C14: a successful EventAlertClaim changes only renLingUserId and        *)
(* updatedAt of the row it addresses; every other column of that row and   *)
(* every other row stay as they were, whatever the event carries.          *)
C14_ClaimWritesOnlyClaimant ==
    (cur.op = "EventAlertClaim" /\ cur.res = Ok)
    => \A i \in RowIds :
          IF prev[i].ID = cur.id
          THEN store[i] = [prev[i] EXCEPT !.RenLingUserID = store[i].RenLingUserID,
                                          !.UpdatedAt = store[i].UpdatedAt]
          ELSE store[i] = prev[i]

(* C15: when EventAlertClaim returns success exactly one row was affected  *)
(* and that row's renLingUserId is non-zero and is the operator the event  *)
(* carries; with a zero renLingUserId in the event it never returns        *)
(* success on a row left unclaimed.                                        *)
C15_SuccessMeansClaimed ==
    (cur.op = "EventAlertClaim" /\ cur.res = Ok)
    => /\ cur.rows = 1
       /\ \A i \in RowsWithId(store, cur.id) :
             /\ store[i].RenLingUserID # 0
             /\ store[i].RenLingUserID = cur.arg.RenLingUserID

(* C16: no call adds or removes a row, changes a row's id or changes a     *)
(* row's deletedAt, whatever fields the event passed to EventAlertClaim    *)
(* carries.                                                                *)
C16_IdAndDeletedAtFixed ==
    /\ DOMAIN store = DOMAIN prev
    /\ \A i \in RowIds :
          /\ store[i].ID = prev[i].ID
          /\ store[i].DeletedAt = prev[i].DeletedAt

(* The columns UpdateAlertEvent names (lines 190-199) agree between row r  *)
(* and event e, written at time t                                          *)
CarriesUpdate(r, e, t) ==
    /\ r.AlertName = e.AlertName
    /\ r.Fingerprint = e.Fingerprint
    /\ r.Status = e.Status
    /\ r.RuleID = e.RuleID
    /\ r.SendGroupID = e.SendGroupID
    /\ r.EventTimes = e.EventTimes
    /\ r.SilenceID = e.SilenceID
    /\ r.RenLingUserID = e.RenLingUserID
    /\ r.Labels = e.Labels
    /\ r.UpdatedAt = t

TerminalStatuses == {"resolved", "silenced"}

(* C18: resolved and silenced are terminal for claiming: an                *)
(* EventAlertClaim leaves the renLingUserId of every event whose status    *)
(* was already resolved or silenced as it was.                             *)
C18_TerminalStatusNotClaimable ==
    cur.op = "EventAlertClaim"
    => \A i \in RowIds :
          prev[i].Status \in TerminalStatuses
          => store[i].RenLingUserID = prev[i].RenLingUserID

(* What a JSON reader makes of a posted body: the tokens before and after  *)
(* the text of the fixed shape {"msg_type":"text","content":{"text":"..."}} *)
JsonHead ==
    <<"{", "\"msg_type\"", ":", "\"text\"", ",", "\"content\"", ":", "{",
      "\"text\"", ":">>

JsonTail == <<"}", "}">>

(* Reads a JSON string of b from position i, just after its opening        *)
(* quote: a backslash escapes the character after it, the first            *)
(* unescaped quote ends the string, and the end of b before that is an     *)
(* error                                                                   *)
RECURSIVE JsonString(_, _, _)
JsonString(b, i, acc) ==
    IF i > Len(b)
    THEN [ok |-> FALSE, text |-> acc, next |-> i]
    ELSE IF b[i] = "\""
    THEN [ok |-> TRUE, text |-> acc, next |-> i + 1]
    ELSE IF b[i] = "\\"
    THEN IF i + 1 <= Len(b) /\ b[i + 1] \in {"\"", "\\"}
         THEN JsonString(b, i + 2, Append(acc, b[i + 1]))
         ELSE [ok |-> FALSE, text |-> acc, next |-> i]
    ELSE JsonString(b, i + 1, Append(acc, b[i]))

DecodeBody(b) ==
    IF /\ Len(b) > Len(JsonHead)
       /\ SubSeq(b, 1, Len(JsonHead)) = JsonHead
       /\ b[Len(JsonHead) + 1] = "\""
    THEN LET s == JsonString(b, Len(JsonHead) + 2, <<>>)
         IN  [ok |-> s.ok /\ SubSeq(b, s.next, Len(b)) = JsonTail,
              text |-> s.text]
    ELSE [ok |-> FALSE, text |-> <<>>]

(* C19: for a non-empty url and a non-empty message, a double quote or a   *)
(* backslash in it included, the body SendMessageToGroup posts is          *)
(* well-formed JSON of the fixed shape and its content.text decodes to     *)
(* exactly the message.                                                    *)
C19_PostedBodyDecodesToMessage ==
    ( /\ cur.op = "SendMessageToGroup"
      /\ cur.url # ""
      /\ cur.msg # <<>> )
    => /\ cur.http
       /\ DecodeBody(cur.body).ok
       /\ DecodeBody(cur.body).text = cur.msg

(* The plain message of the input set is posted as a body that decodes     *)
PlainMessageDecodes ==
    ( /\ cur.op = "SendMessageToGroup"
      /\ cur.http
      /\ \A k \in 1 .. Len(cur.msg) : cur.msg[k] \notin {"\"", "\\"} )
    => /\ DecodeBody(cur.body).ok
       /\ DecodeBody(cur.body).text = cur.msg

(* C20: GetMonitorAlertEventById and GetAlertEventByID are                 *)
(* observationally equivalent: in every store state, for every id          *)
(* (positive or not, existing, missing or soft-deleted) and with the store *)
(* healthy or failing, they return the same event or the same kind of      *)
(* error, and neither changes the store.                                   *)
C20_LookupsEquivalent ==
    /\ \A id \in Ids \cup RowIds, fault \in BOOLEAN :
          LET g == GetMonitorAlertEventByIdCall(id, fault, store, now)
              h == GetAlertEventByIDCall(id, fault, store, now)
          IN  /\ g.res = h.res
              /\ g.out = h.out
              /\ g.db = h.db
    /\ cur.op \in {"GetMonitorAlertEventById", "GetAlertEventByID"}
       => store = prev

C20_Witness ==
    /\ cur.op = "GetAlertEventByID"
    /\ cur.res = ErrRecordNotFound
    /\ \E i \in RowIds : store[i].ID = cur.id /\ store[i].DeletedAt # 0
    /\ \E i \in RowIds : store[i].DeletedAt = 0 /\ store[i].RenLingUserID # 0
                         /\ GetAlertEventByIDCall(store[i].ID, FALSE, store, now).out
                            = <<store[i]>>
====
